---- MODULE Spec2Model ----
(***************************************************************************)
(* Loss bookkeeping (models/loss.py: EpochLoss, LossRegistory), the metric *)
(* calculators, the evaluation runs and the cross-run summary file         *)
(* (lib/metrics.py) of Nervus, as state machines.                          *)
(*                                                                         *)
(* Python floats are modelled as exact rationals <<numerator, denominator>>*)
(* in lowest terms with a positive denominator; None is the empty tuple.   *)
(***************************************************************************)
EXTENDS Integers, Sequences, FiniteSets, TLC

VARIABLES
    acc,                  \* a stand-alone EpochLoss object
    ret,                  \* value returned by the last get_latest_loss call
    internal_label_list,  \* LossRegistory.internal_label_list
    batch_loss,           \* LossRegistory.batch_loss
    running_loss,         \* LossRegistory.running_loss
    epoch_loss,           \* LossRegistory.epoch_loss: key -> EpochLoss
    summary_exists,       \* summary_path.exists()
    summary_file,         \* text rows of summary.csv (below the header)
    lastOp,               \* name of the operation that ran last
    lastArgs,             \* its arguments [phase, epoch, size]
    err,                  \* exception raised by the last operation, or "ok"
    \* history variables, read by the properties only
    appended,             \* phase -> value of the last append to acc
    pending,              \* a val loss of acc awaits its update_best call
    ordered,              \* acc was driven epoch by epoch: append, update(0), append, update(1), ...
    batches,              \* batches accumulated since the running sums were last reset
    closed,               \* the batches the last cal_epoch_loss call reduced
    passed,               \* per update_summary call so far, the rows it was given, as formatted
    runs,                 \* per evaluation process, the make_metrics call it is in
    started,              \* number of evaluation runs started so far
    table,                \* the likelihood table (or the ROC inputs) given to a calculator
    result,               \* what the calculator returned for it
    twin                  \* two ledgers given the same operations, and the label they differ in

vars == <<acc, ret, internal_label_list, batch_loss, running_loss, epoch_loss,
          summary_exists, summary_file, lastOp, lastArgs, err,
          appended, pending, ordered, batches, closed, passed, runs, started,
          table, result, twin>>

accVars == <<acc, ret, appended, pending, ordered>>
regVars == <<internal_label_list, batch_loss, running_loss, epoch_loss, batches, closed>>
evalVars == <<runs, started>>
calcVars == <<table, result>>
sumVars == <<summary_exists, summary_file, passed, evalVars, calcVars, twin>>

-----------------------------------------------------------------------------
(* Bounds of the model *)

MaxVal == 4          \* longest val sequence of the stand-alone accumulator
MaxTrain == 1        \* longest train sequence of the stand-alone accumulator
MaxEpochs == 2       \* epoch losses recorded on a ledger, train and val together
MaxBatches == 2      \* cal_running_loss calls between two resets of the running sums
MaxPersist == 3      \* evaluation runs that persist to one summary path
MaxRuns == 3         \* evaluation runs started by the concurrent processes
MaxRows == 4         \* rows of a likelihood table
MaxPoints == 5       \* points of a ROC curve

-----------------------------------------------------------------------------
(* Floats as rationals *)

None == <<>>

NoEpoch == -1        \* best_epoch = None

RECURSIVE GCD(_, _)
GCD(a, b) == IF b = 0 THEN a ELSE GCD(b, a % b)

Rat(n, d) == LET g == GCD(n, d) IN IF g = 0 THEN <<0, 1>> ELSE <<n \div g, d \div g>>

RatAdd(x, y) == Rat(x[1] * y[2] + y[1] * x[2], x[2] * y[2])

RatMulInt(x, k) == Rat(x[1] * k, x[2])

RatDivInt(x, k) == Rat(x[1], x[2] * k)

RatLess(x, y) == x[1] * y[2] < y[1] * x[2]

RatSub(x, y) == Rat(x[1] * y[2] - y[1] * x[2], x[2] * y[2])

RatMul(x, y) == Rat(x[1] * y[1], x[2] * y[2])

\* x / y for y > 0
RatDiv(x, y) == Rat(x[1] * y[2], x[2] * y[1])

Zero == <<0, 1>>

\* the arguments recorded for the operation that ran last
Args(phase, epoch, size) == [phase |-> phase, epoch |-> epoch, size |-> size]

NoArgs == Args("none", -1, -1)

Phases == {"train", "val"}

-----------------------------------------------------------------------------
(* EpochLoss *)

EpochLoss == [train |-> <<>>, val |-> <<>>, best_val_loss |-> None,
              best_epoch |-> NoEpoch, update_flag |-> FALSE]

append_epoch_loss(a, phase, new_epoch_loss) ==
    [a EXCEPT ![phase] = Append(@, new_epoch_loss)]

\* [0] instead of [-1]
get_latest_loss_first(a, phase) == a[phase][1]

\* getattr(self, phase)[-1]; the caller checks can_get_latest_loss first
get_latest_loss(a, phase) == a[phase][Len(a[phase])]

\* [-1] on an empty list raises IndexError
can_get_latest_loss(a, phase) == Len(a[phase]) > 0

get_best_val_loss(a) == a.best_val_loss

set_best_val_loss(a, best_val_loss) == [a EXCEPT !.best_val_loss = best_val_loss]

get_best_epoch(a) == a.best_epoch

set_best_epoch(a, best_epoch) == [a EXCEPT !.best_epoch = best_epoch]

flag_up(a) == [a EXCEPT !.update_flag = TRUE]

flag_down(a) == [a EXCEPT !.update_flag = FALSE]

is_updated(a) == a.update_flag

\* The exception update_best_val_loss_epoch raises, or "ok":
\* IndexError from get_latest_loss('val') on an empty list, TypeError from
\* float < None when epoch > 0 and no best has been stored.
update_best_error(a, epoch) ==
    IF ~can_get_latest_loss(a, "val") THEN "IndexError"
    ELSE IF epoch # 0 /\ get_best_val_loss(a) = None THEN "TypeError"
    ELSE "ok"

\* <= instead of <
update_best_val_loss_epoch_le(a, epoch) ==
    IF epoch = 0
    THEN set_best_epoch(set_best_val_loss(a, get_latest_loss(a, "val")), epoch + 1)
    ELSE LET _latest_val_loss == get_latest_loss(a, "val")
             _best_val_loss == get_best_val_loss(a)
         IN  IF ~RatLess(_best_val_loss, _latest_val_loss)
             THEN flag_up(set_best_epoch(set_best_val_loss(a, _latest_val_loss), epoch + 1))
             ELSE flag_down(a)

\* the else branch forgets flag_down
update_best_val_loss_epoch_sticky(a, epoch) ==
    IF epoch = 0
    THEN set_best_epoch(set_best_val_loss(a, get_latest_loss(a, "val")), epoch + 1)
    ELSE LET _latest_val_loss == get_latest_loss(a, "val")
             _best_val_loss == get_best_val_loss(a)
         IN  IF RatLess(_latest_val_loss, _best_val_loss)
             THEN flag_up(set_best_epoch(set_best_val_loss(a, _latest_val_loss), epoch + 1))
             ELSE a

update_best_val_loss_epoch(a, epoch) ==
    IF epoch = 0
    THEN set_best_epoch(set_best_val_loss(a, get_latest_loss(a, "val")), epoch + 1)
    ELSE LET _latest_val_loss == get_latest_loss(a, "val")
             _best_val_loss == get_best_val_loss(a)
         IN  IF RatLess(_latest_val_loss, _best_val_loss)
             THEN flag_up(set_best_epoch(set_best_val_loss(a, _latest_val_loss), epoch + 1))
             ELSE flag_down(a)

-----------------------------------------------------------------------------
(* LossRegistory *)

KeySet(labels) == {labels[i] : i \in 1..Len(labels)} \cup {"total"}

_init_batch_loss(labels) == [k \in KeySet(labels) |-> None]

_init_running_loss(labels) == [k \in KeySet(labels) |-> Zero]

_init_epoch_loss(labels) == [k \in KeySet(labels) |-> EpochLoss]

\* ClassificationLoss / RegressionLoss.cal_batch_loss: one criterion output
\* per label (criterion maps label name -> loss), and their sum under 'total'
RECURSIVE batch_total(_, _)
batch_total(criterion, labels) ==
    IF labels = <<>> THEN Zero
    ELSE RatAdd(batch_total(criterion, SubSeq(labels, 1, Len(labels) - 1)),
                criterion[labels[Len(labels)]])

cal_batch_loss(bl, criterion, labels) ==
    [k \in DOMAIN bl |-> IF k = "total" THEN batch_total(criterion, labels) ELSE criterion[k]]

\* the batch loss is not weighted by the batch size
RECURSIVE cal_running_loss_unweighted(_, _, _, _)
cal_running_loss_unweighted(rl, bl, labels, batch_size) ==
    IF labels = <<>> THEN [running_loss |-> rl, err |-> "ok"]
    ELSE LET internal_label_name == Head(labels) IN
         IF bl[internal_label_name] = None
         THEN [running_loss |-> rl, err |-> "AttributeError"]
         ELSE LET _running_loss == RatAdd(rl[internal_label_name], bl[internal_label_name])
              IN  cal_running_loss_unweighted(
                      [rl EXCEPT ![internal_label_name] = _running_loss,
                                 !["total"] = RatAdd(@, _running_loss)],
                      bl, Tail(labels), batch_size)

\* every label accumulates the batch loss of 'total' instead of its own
RECURSIVE cal_running_loss_of_total(_, _, _, _)
cal_running_loss_of_total(rl, bl, labels, batch_size) ==
    IF labels = <<>> THEN [running_loss |-> rl, err |-> "ok"]
    ELSE LET internal_label_name == Head(labels) IN
         IF bl[internal_label_name] = None
         THEN [running_loss |-> rl, err |-> "AttributeError"]
         ELSE LET _running_loss == RatAdd(rl[internal_label_name],
                                          RatMulInt(bl["total"], batch_size))
              IN  cal_running_loss_of_total(
                      [rl EXCEPT ![internal_label_name] = _running_loss,
                                 !["total"] = RatAdd(@, _running_loss)],
                      bl, Tail(labels), batch_size)

\* The for loop of cal_running_loss over the labels still to visit; .item()
\* on a batch loss that is None raises AttributeError and ends the loop.
RECURSIVE cal_running_loss(_, _, _, _)
cal_running_loss(rl, bl, labels, batch_size) ==
    IF labels = <<>> THEN [running_loss |-> rl, err |-> "ok"]
    ELSE LET internal_label_name == Head(labels) IN
         IF bl[internal_label_name] = None
         THEN [running_loss |-> rl, err |-> "AttributeError"]
         ELSE LET _running_loss == RatAdd(rl[internal_label_name],
                                          RatMulInt(bl[internal_label_name], batch_size))
              IN  cal_running_loss([rl EXCEPT ![internal_label_name] = _running_loss,
                                               !["total"] = RatAdd(@, _running_loss)],
                                   bl, Tail(labels), batch_size)

\* First loop of cal_epoch_loss: per-label epoch losses appended under phase;
\* returns the accumulators and the sum _total of the appended losses.
RECURSIVE append_label_losses(_, _, _, _, _, _)
append_label_losses(el, rl, labels, phase, dataset_size, _total) ==
    IF labels = <<>> THEN [epoch_loss |-> el, _total |-> _total]
    ELSE LET internal_label_name == Head(labels)
             _new_epoch_loss == RatDivInt(rl[internal_label_name], dataset_size)
         IN  append_label_losses(
                 [el EXCEPT ![internal_label_name] = append_epoch_loss(@, phase, _new_epoch_loss)],
                 rl, Tail(labels), phase, dataset_size, RatAdd(_total, _new_epoch_loss))

\* the sum of the per-label epoch losses, not their mean
append_total_loss_sum(el, _total, labels, phase) ==
    [el EXCEPT !["total"] = append_epoch_loss(@, phase, _total)]

\* nothing is appended to the 'total' accumulator
append_total_loss_unrecorded(el, _total, labels, phase) == el

\* _total / len(internal_label_list), appended to the 'total' accumulator
append_total_loss(el, _total, labels, phase) ==
    [el EXCEPT !["total"] = append_epoch_loss(@, phase, RatDivInt(_total, Len(labels)))]

\* 'total' is left out of the update loop
update_keys_without_total(labels) == labels

\* The keys whose accumulator cal_epoch_loss updates when phase is 'val'
update_keys(labels) == labels \o <<"total">>

\* Second loop of cal_epoch_loss (phase 'val'): update_best_val_loss_epoch on
\* the accumulators of keys, in order, until one raises.
RECURSIVE update_all(_, _, _)
update_all(el, keys, epoch) ==
    IF keys = <<>> THEN [epoch_loss |-> el, err |-> "ok"]
    ELSE LET e == update_best_error(el[Head(keys)], epoch) IN
         IF e # "ok" THEN [epoch_loss |-> el, err |-> e]
         ELSE update_all([el EXCEPT ![Head(keys)] = update_best_val_loss_epoch(@, epoch)],
                         Tail(keys), epoch)

\* cal_epoch_loss up to its last two lines: appends, then the updates of 'val'
cal_epoch_loss(el, rl, labels, epoch, phase, dataset_size) ==
    LET a == append_label_losses(el, rl, labels, phase, dataset_size, Zero)
        t == append_total_loss(a.epoch_loss, a._total, labels, phase)
    IN  IF phase = "val" THEN update_all(t, update_keys(labels), epoch)
        ELSE [epoch_loss |-> t, err |-> "ok"]

\* the running sums are left as they are
initialize_batch_loss_only(labels) ==
    [batch_loss |-> _init_batch_loss(labels), running_loss |-> running_loss]

\* The last two lines of cal_epoch_loss ("# Initialize")
initialize(labels) ==
    [batch_loss |-> _init_batch_loss(labels), running_loss |-> _init_running_loss(labels)]

-----------------------------------------------------------------------------
(* MetricsMixin: the summary table and its CSV file *)

\* A decimal text is <<integer part, digits after the point>>: "0.50" is
\* <<0, <<5, 0>>>>.  A DataFrame cell is a str holding a text or a float.
StrCell(t) == [kind |-> "str", v |-> t]

FloatCell(x) == [kind |-> "float", v |-> x]

\* f"{x:.2f}" of a metric x given in thousandths
Format2f(x) ==
    LET h == (x + 5) \div 10 IN <<h \div 100, <<(h % 100) \div 10, h % 10>>>>

RECURSIVE FractionOf(_)
FractionOf(digits) ==
    IF digits = <<>> THEN Zero
    ELSE RatDivInt(RatAdd(Rat(Head(digits), 1), FractionOf(Tail(digits))), 10)

\* read_csv parses a numeric text into a float
ParseFloat(t) == RatAdd(Rat(t[1], 1), FractionOf(t[2]))

\* to_csv writes a float by its shortest repr: 0.5, 0.85, 1.0
ReprFloat(x) ==
    LET h == (x[1] * 100) \div x[2] IN
    IF h % 10 = 0 THEN <<h \div 100, <<(h % 100) \div 10>>>>
    ELSE <<h \div 100, <<(h % 100) \div 10, h % 10>>>>

\* position of a group name in ascending order of the names
GroupRank(g) == IF g = "groupA" THEN 1 ELSE 2

RECURSIVE SortByGroup(_)
SortByGroup(rows) ==
    IF Len(rows) <= 1 THEN rows
    ELSE LET m == CHOOSE i \in 1..Len(rows) :
                      \A j \in 1..Len(rows) :
                          \/ GroupRank(rows[i].group) < GroupRank(rows[j].group)
                          \/ GroupRank(rows[i].group) = GroupRank(rows[j].group) /\ i <= j
             rest == [k \in 1..(Len(rows) - 1) |-> IF k < m THEN rows[k] ELSE rows[k + 1]]
         IN  <<rows[m]>> \o SortByGroup(rest)

\* the rows stay in the dict order of whole_metrics
make_summary_unsorted(whole_metrics, _datetime, _weight) ==
    [i \in 1..Len(whole_metrics) |->
        [datetime |-> _datetime, weight |-> _weight, group |-> whole_metrics[i].group,
         val |-> StrCell(Format2f(whole_metrics[i].val)),
         test |-> StrCell(Format2f(whole_metrics[i].test))]]

\* make_summary: one row per group of whole_metrics (a sequence of
\* [group, val, test] in dict order), metrics formatted, sorted by group
make_summary(whole_metrics, _datetime, _weight) ==
    SortByGroup([i \in 1..Len(whole_metrics) |->
        [datetime |-> _datetime, weight |-> _weight, group |-> whole_metrics[i].group,
         val |-> StrCell(Format2f(whole_metrics[i].val)),
         test |-> StrCell(Format2f(whole_metrics[i].test))]])

\* pd.read_csv: the metric columns hold numeric texts only and come back as
\* float64; datetime, weight and group stay str
read_csv(file) ==
    [i \in 1..Len(file) |->
        [file[i] EXCEPT !.val = FloatCell(ParseFloat(@)), !.test = FloatCell(ParseFloat(@))]]

concat(df_prev, df_summary) == df_prev \o df_summary

CellText(c) == IF c.kind = "float" THEN ReprFloat(c.v) ELSE c.v

\* DataFrame.to_csv(index=False)
to_csv(df) ==
    [i \in 1..Len(df) |-> [df[i] EXCEPT !.val = CellText(@), !.test = CellText(@)]]

\* update_summary: the file written, from the file found (if any) and df_summary
update_summary(exists, file, df_summary) ==
    IF exists
    THEN LET df_prev == read_csv(file)
             df_updated == concat(df_prev, df_summary)
         IN  to_csv(df_updated)
    ELSE to_csv(df_summary)

-----------------------------------------------------------------------------
(* Evaluation runs that persist their summaries to one summary path *)

Groups == {"groupA", "groupB"}

ValMetrics == {500, 854}

TestMetrics == {854, 1000}

GroupMetrics(g) == {[group |-> g, val |-> v, test |-> t] : v \in ValMetrics, t \in TestMetrics}

\* the metrics of a run: one entry per group, in order of first appearance
WholeMetrics ==
    {<<m>> : m \in GroupMetrics("groupA") \cup GroupMetrics("groupB")}
    \cup {<<m, n>> : m \in GroupMetrics("groupA"), n \in GroupMetrics("groupB")}
    \cup {<<n, m>> : m \in GroupMetrics("groupA"), n \in GroupMetrics("groupB")}

UpdateSummary(whole_metrics) ==
    \* _datetime stands for the name of the run's timestamp directory, a text
    \* read_csv does not take for a number
    LET df_summary == make_summary(whole_metrics, Len(passed) + 1, "weight.pt") IN
    /\ Len(passed) < MaxPersist
    /\ summary_file' = update_summary(summary_exists, summary_file, df_summary)
    /\ summary_exists' = TRUE
    /\ passed' = Append(passed, to_csv(df_summary))
    /\ lastOp' = "update_summary"
    /\ lastArgs' = NoArgs
    /\ err' = "ok"
    /\ UNCHANGED <<accVars, regVars, evalVars, calcVars, twin>>

SumNext == \E whole_metrics \in WholeMetrics : UpdateSummary(whole_metrics)

-----------------------------------------------------------------------------
(* A ledger driven through cal_batch_loss, cal_running_loss, cal_epoch_loss *)

LabelLists == {<<"label_A">>, <<"label_A", "label_B">>}

\* The criterion outputs of one batch, per label: 1.0 on a ledger of one
\* label, 2.0 and 4.0 on a ledger of two.
Criteria(labels) ==
    IF Len(labels) = 1
    THEN {[label_A |-> Rat(1, 1)]}
    ELSE {[label_A |-> Rat(2, 1), label_B |-> Rat(4, 1)]}

BatchSizes == {1, 2}

DatasetSizes == {0, 3}

\* epoch 0 and a later epoch
Epochs == {0, 1}

\* epoch losses recorded on a ledger so far, over both phases
Recorded(el) == Len(el["total"].train) + Len(el["total"].val)

CalBatchLoss(criterion) ==
    /\ batch_loss' = cal_batch_loss(batch_loss, criterion, internal_label_list)
    /\ lastOp' = "cal_batch_loss"
    /\ lastArgs' = NoArgs
    /\ err' = "ok"
    /\ UNCHANGED <<internal_label_list, running_loss, epoch_loss, batches, closed,
                   accVars, sumVars>>

CalRunningLoss(batch_size) ==
    LET r == cal_running_loss(running_loss, batch_loss, internal_label_list, batch_size) IN
    /\ Len(batches) < MaxBatches
    /\ running_loss' = r.running_loss
    /\ err' = r.err
    /\ batches' = IF r.err = "ok"
                  THEN Append(batches, [loss |-> batch_loss, size |-> batch_size])
                  ELSE batches
    /\ lastOp' = "cal_running_loss"
    /\ lastArgs' = Args("none", -1, batch_size)
    /\ UNCHANGED <<internal_label_list, batch_loss, epoch_loss, closed, accVars, sumVars>>

CalEpochLoss(epoch, phase, dataset_size) ==
    /\ Recorded(epoch_loss) < MaxEpochs
    /\ lastOp' = "cal_epoch_loss"
    /\ lastArgs' = Args(phase, IF phase = "val" /\ dataset_size # 0 THEN epoch ELSE -1,
                        dataset_size)
    /\ IF dataset_size = 0
       THEN \* running_loss / 0 raises before anything is appended
            /\ err' = "ZeroDivisionError"
            /\ UNCHANGED <<batch_loss, running_loss, epoch_loss, batches, closed>>
       ELSE LET r == cal_epoch_loss(epoch_loss, running_loss, internal_label_list,
                                    epoch, phase, dataset_size) IN
            /\ err' = r.err
            /\ epoch_loss' = r.epoch_loss
            /\ closed' = batches
            /\ IF r.err = "ok"
               THEN /\ batch_loss' = initialize(internal_label_list).batch_loss
                    /\ running_loss' = initialize(internal_label_list).running_loss
                    /\ batches' = <<>>
               ELSE UNCHANGED <<batch_loss, running_loss, batches>>
    /\ UNCHANGED <<internal_label_list, accVars, sumVars>>

InitReg ==
    /\ internal_label_list \in LabelLists
    /\ batch_loss = _init_batch_loss(internal_label_list)
    /\ running_loss = _init_running_loss(internal_label_list)
    /\ epoch_loss = _init_epoch_loss(internal_label_list)
    /\ batches = <<>>
    /\ closed = <<>>

\* The task values of the configuration, and one value that is none of them
Tasks == {"classification", "regression", "deepsurv"}

TaskValues == Tasks \cup {"segmentation"}

\* create_loss_reg: the class of the ledger it returns.  The DeepSurvLoss
\* branch is commented out, and the else branch only logs "Cannot identify
\* task" before `return loss_reg` reads the local that was never bound.
create_loss_reg(task) ==
    IF task = "classification" THEN [loss_reg |-> "ClassificationLoss", err |-> "ok"]
    ELSE IF task = "regression" THEN [loss_reg |-> "RegressionLoss", err |-> "ok"]
    ELSE [loss_reg |-> "unbound", err |-> "UnboundLocalError"]

\* set_eval: the class of the evaluator it returns, or the ValueError
\* "Invalid task" it raises
set_eval(task) ==
    IF task = "classification" THEN [eval |-> "ClsEval", err |-> "ok"]
    ELSE IF task = "regression" THEN [eval |-> "RegEval", err |-> "ok"]
    ELSE IF task = "deepsurv" THEN [eval |-> "DeepSurvEval", err |-> "ok"]
    ELSE [eval |-> "unbound", err |-> "ValueError"]

\* The training driver calls create_loss_reg before the first batch; a ledger
\* that is returned replaces the one held so far.
CreateLossReg(task, labels) ==
    /\ lastOp \in {"init", "create_loss_reg"}
    /\ lastOp' = "create_loss_reg"
    /\ lastArgs' = [task |-> task]
    /\ err' = create_loss_reg(task).err
    /\ IF create_loss_reg(task).err = "ok"
       THEN /\ internal_label_list' = labels
            /\ batch_loss' = _init_batch_loss(labels)
            /\ running_loss' = _init_running_loss(labels)
            /\ epoch_loss' = _init_epoch_loss(labels)
            /\ batches' = <<>>
            /\ closed' = <<>>
       ELSE UNCHANGED regVars
    /\ UNCHANGED <<accVars, sumVars>>

-----------------------------------------------------------------------------
(* Two ledgers of the same labels that are given the same sequence of       *)
(* operations; their batch losses differ in at most one internal label      *)

TwinLabels == <<"label_A", "label_B">>

\* A ledger as one value: the fields of LossRegistory, the exception of its
\* last call, and the cal_running_loss calls since the last reset
Ledger(labels) ==
    [batch_loss |-> _init_batch_loss(labels), running_loss |-> _init_running_loss(labels),
     epoch_loss |-> _init_epoch_loss(labels), err |-> "ok", n_batches |-> 0]

NoTwin == [a |-> Ledger(TwinLabels), b |-> Ledger(TwinLabels), L |-> "none"]

\* cal_batch_loss on a ledger value
LedgerBatchLoss(g, criterion) ==
    [g EXCEPT !.batch_loss = cal_batch_loss(@, criterion, TwinLabels), !.err = "ok"]

\* cal_running_loss on a ledger value
LedgerRunningLoss(g, batch_size) ==
    LET r == cal_running_loss(g.running_loss, g.batch_loss, TwinLabels, batch_size) IN
    [g EXCEPT !.running_loss = r.running_loss, !.err = r.err,
              !.n_batches = IF r.err = "ok" THEN @ + 1 ELSE @]

\* cal_epoch_loss on a ledger value
LedgerEpochLoss(g, epoch, phase, dataset_size) ==
    IF dataset_size = 0 THEN [g EXCEPT !.err = "ZeroDivisionError"]
    ELSE LET r == cal_epoch_loss(g.epoch_loss, g.running_loss, TwinLabels,
                                 epoch, phase, dataset_size) IN
         IF r.err = "ok"
         THEN [batch_loss |-> initialize(TwinLabels).batch_loss,
               running_loss |-> initialize(TwinLabels).running_loss,
               epoch_loss |-> r.epoch_loss, err |-> "ok", n_batches |-> 0]
         ELSE [g EXCEPT !.epoch_loss = r.epoch_loss, !.err = r.err]

\* The criterion outputs of one batch on ledger a, and on ledger b the same
\* outputs or a different output for label l
\* the size of every batch of the two ledgers
TwinBatchSize == 2

TwinCriterion == [label_A |-> Rat(2, 1), label_B |-> Rat(4, 1)]

Differing(l) == [TwinCriterion EXCEPT ![l] = RatAdd(@, Rat(1, 1))]

TwinCalBatchLoss(l) ==
    /\ l \in {"none", "label_A", "label_B"}
    /\ twin.L \in {"none", l} \/ l = "none"
    /\ twin' = [a |-> LedgerBatchLoss(twin.a, TwinCriterion),
                b |-> LedgerBatchLoss(twin.b, IF l = "none" THEN TwinCriterion ELSE Differing(l)),
                L |-> IF l = "none" THEN twin.L ELSE l]
    /\ lastOp' = "cal_batch_loss"
    /\ lastArgs' = NoArgs
    /\ err' = "ok"
    /\ UNCHANGED <<accVars, regVars, summary_exists, summary_file, passed, evalVars, calcVars>>

TwinCalRunningLoss(batch_size) ==
    /\ twin.a.n_batches < MaxBatches
    /\ twin' = [twin EXCEPT !.a = LedgerRunningLoss(@, batch_size),
                            !.b = LedgerRunningLoss(@, batch_size)]
    /\ lastOp' = "cal_running_loss"
    /\ lastArgs' = NoArgs
    /\ err' = LedgerRunningLoss(twin.a, batch_size).err
    /\ UNCHANGED <<accVars, regVars, summary_exists, summary_file, passed, evalVars, calcVars>>

TwinCalEpochLoss(epoch, phase, dataset_size) ==
    /\ Recorded(twin.a.epoch_loss) < MaxEpochs
    /\ twin' = [twin EXCEPT !.a = LedgerEpochLoss(@, epoch, phase, dataset_size),
                            !.b = LedgerEpochLoss(@, epoch, phase, dataset_size)]
    /\ lastOp' = "cal_epoch_loss"
    /\ lastArgs' = NoArgs
    /\ err' = LedgerEpochLoss(twin.a, epoch, phase, dataset_size).err
    /\ UNCHANGED <<accVars, regVars, summary_exists, summary_file, passed, evalVars, calcVars>>

TwinNext ==
    \/ \E l \in {"none", "label_A", "label_B"} : TwinCalBatchLoss(l)
    \/ TwinCalRunningLoss(TwinBatchSize)
    \/ \E epoch \in Epochs, dataset_size \in DatasetSizes :
           TwinCalEpochLoss(epoch, "val", dataset_size)
    \/ \E dataset_size \in DatasetSizes : TwinCalEpochLoss(0, "train", dataset_size)

-----------------------------------------------------------------------------
(* Evaluation processes: set_eval, then make_metrics statement by statement, *)
(* on one summary path and without a lock                                    *)

Procs == {"p1", "p2"}

\* the statements of MetricsMixin.make_metrics with update_summary called
\* before the figures are saved
make_metrics_persist_first(eval) ==
    <<"read_csv", "cal_whole_metrics", "make_summary", "print_metrics",
      "update_summary", "make_save_fig">>

\* The statements of make_metrics in order: MetricsMixin.make_metrics for
\* ClsEval and RegEval, the override without figures for DeepSurvEval
make_metrics(eval) ==
    IF eval = "DeepSurvEval"
    THEN <<"read_csv", "cal_whole_metrics", "make_summary", "print_metrics",
           "update_summary">>
    ELSE <<"read_csv", "cal_whole_metrics", "make_save_fig", "make_summary",
           "print_metrics", "update_summary">>

\* the rows read from the file are dropped
df_updated_new_rows_only(exists, file, df_summary) == df_summary

\* update_summary up to to_csv: the table it is about to write
df_updated(exists, file, df_summary) ==
    IF exists THEN concat(read_csv(file), df_summary) ELSE df_summary

\* The metrics a run computes from its likelihood table
RunMetrics ==
    {<<[group |-> g, val |-> 854, test |-> 854]>> : g \in Groups}

\* A process outside make_metrics, and one that set_eval has just given an
\* evaluator.  todo: statements of make_metrics still to run; completed: those
\* that returned; inside: update_summary has read and not yet written;
\* missed: runs that wrote to the path since this one read it.
NoRun ==
    [todo |-> <<>>, completed |-> <<>>, run |-> 0, whole_metrics |-> <<>>,
     df_summary |-> <<>>, df_updated |-> <<>>, inside |-> FALSE, missed |-> {}]

NewRun(eval, id) == [NoRun EXCEPT !.todo = make_metrics(eval), !.run = id]

Advance(r) == [r EXCEPT !.todo = Tail(@), !.completed = Append(@, Head(r.todo))]

SetEval(p, task) ==
    /\ runs[p].todo = <<>>
    /\ started < MaxRuns
    /\ lastOp' = "set_eval"
    /\ lastArgs' = [task |-> task]
    /\ err' = set_eval(task).err
    /\ IF set_eval(task).err = "ok"
       THEN /\ runs' = [runs EXCEPT ![p] = NewRun(set_eval(task).eval, started + 1)]
            /\ started' = started + 1
       ELSE UNCHANGED <<runs, started>>
    /\ UNCHANGED <<accVars, regVars, summary_exists, summary_file, passed, calcVars, twin>>

\* A statement of make_metrics other than update_summary returns
Statement(p, whole_metrics) ==
    LET r == runs[p] IN
    /\ r.todo # <<>>
    /\ Head(r.todo) # "update_summary"
    /\ lastOp' = Head(r.todo)
    /\ lastArgs' = NoArgs
    /\ err' = "ok"
    /\ runs' = [runs EXCEPT ![p] =
           IF Head(r.todo) = "cal_whole_metrics"
           THEN [Advance(r) EXCEPT !.whole_metrics = whole_metrics]
           ELSE IF Head(r.todo) = "make_summary"
           THEN [Advance(r) EXCEPT !.whole_metrics = <<>>,
                     !.df_summary = make_summary(r.whole_metrics, r.run, "weight.pt")]
           ELSE Advance(r)]
    /\ UNCHANGED <<accVars, regVars, summary_exists, summary_file, passed, started, calcVars, twin>>

\* A statement of make_metrics other than update_summary raises (a missing
\* likelihood file, a metric that cannot be computed, a figure that cannot be
\* saved): the exception leaves make_metrics and ends the run
StatementRaises(p) ==
    LET r == runs[p] IN
    /\ r.todo # <<>>
    /\ Head(r.todo) # "update_summary"
    /\ lastOp' = Head(r.todo)
    /\ lastArgs' = NoArgs
    /\ err' = "Exception"
    /\ runs' = [runs EXCEPT ![p] = NoRun]
    /\ UNCHANGED <<accVars, regVars, summary_exists, summary_file, passed, started, calcVars, twin>>

\* update_summary, first half: summary_path.exists(), pd.read_csv, pd.concat
UpdateSummaryRead(p) ==
    LET r == runs[p] IN
    /\ r.todo # <<>>
    /\ Head(r.todo) = "update_summary"
    /\ ~r.inside
    /\ lastOp' = "read_summary"
    /\ lastArgs' = NoArgs
    /\ err' = "ok"
    /\ runs' = [runs EXCEPT ![p] =
           [r EXCEPT !.inside = TRUE, !.missed = {},
                     !.df_updated = df_updated(summary_exists, summary_file, r.df_summary)]]
    /\ UNCHANGED <<accVars, regVars, summary_exists, summary_file, passed, started, calcVars, twin>>

\* update_summary, second half: df_updated.to_csv(summary_path) overwrites
\* the file
UpdateSummaryWrite(p) ==
    LET r == runs[p] IN
    /\ r.todo # <<>>
    /\ Head(r.todo) = "update_summary"
    /\ r.inside
    /\ lastOp' = "to_csv"
    /\ lastArgs' = NoArgs
    /\ err' = "ok"
    /\ summary_file' = to_csv(r.df_updated)
    /\ summary_exists' = TRUE
    /\ passed' = Append(passed, to_csv(r.df_summary))
    /\ runs' = [q \in Procs |->
           IF q = p
           THEN IF Tail(r.todo) = <<>> THEN NoRun
                ELSE [Advance(r) EXCEPT !.inside = FALSE, !.df_updated = <<>>]
           ELSE IF runs[q].inside
                THEN [runs[q] EXCEPT !.missed = @ \cup {r.run}]
                ELSE runs[q]]
    /\ UNCHANGED <<accVars, regVars, started, calcVars, twin>>

EvalNext ==
    \/ \E p \in Procs, task \in TaskValues : SetEval(p, task)
    \/ \E p \in Procs, whole_metrics \in RunMetrics : Statement(p, whole_metrics)
    \/ \E p \in Procs : StatementRaises(p)
    \/ \E p \in Procs : UpdateSummaryRead(p)
    \/ \E p \in Procs : UpdateSummaryWrite(p)

-----------------------------------------------------------------------------
(* Likelihood tables.  A column name is the sequence of its pieces, so that *)
(* 'pred_label_x' is <<"pred", "_", "label", "_", "x">>; a DataFrame is its *)
(* columns in order and its rows, each a function from column to cell.      *)

\* the elements of a sequence
Range(seq) == {seq[i] : i \in 1..Len(seq)}

\* str.startswith
startswith(name, prefix) ==
    Len(prefix) <= Len(name) /\ SubSeq(name, 1, Len(prefix)) = prefix

\* `part in name` on str
contains(name, part) ==
    \E i \in 0..(Len(name) - Len(part)) : SubSeq(name, i + 1, i + Len(part)) = part

\* Series.unique(): the distinct values in order of first appearance
RECURSIVE unique(_)
unique(values) ==
    IF values = <<>> THEN <<>>
    ELSE LET u == unique(SubSeq(values, 1, Len(values) - 1))
             v == values[Len(values)]
         IN  IF \E i \in 1..Len(u) : u[i] = v THEN u ELSE Append(u, v)

\* df[name]
Column(df, name) == [i \in 1..Len(df.rows) |-> df.rows[i][name]]

\* df.query('name == @value')
query(df, name, value) ==
    [df EXCEPT !.rows = SelectSeq(df.rows, LAMBDA r : r[name] = value)]

\* df[columns]
Project(df, columns) ==
    [columns |-> columns,
     rows |-> [i \in 1..Len(df.rows) |->
                  [c \in {columns[k] : k \in 1..Len(columns)} |-> df.rows[i][c]]]]

NoTable == [columns |-> <<>>, rows |-> <<>>]

NotComputed == [err |-> "none", value |-> <<>>]

-----------------------------------------------------------------------------
(* YYMixin and MetricsMixin.cal_whole_metrics on regression tables *)

NaN == <<0, 0>>

RECURSIVE Sum(_)
Sum(xs) == IF xs = <<>> THEN 0 ELSE Head(xs) + Sum(Tail(xs))

\* sklearn.metrics.r2_score on integer samples: 1 - SS_res / SS_tot; nan
\* (with a warning) for fewer than two samples; with SS_tot = 0 it returns
\* 1.0 when SS_res = 0 and 0.0 otherwise.  It raises for no sample only.
r2_score(y_obs, y_pred) ==
    LET n == Len(y_obs)
        ss_res == Sum([i \in 1..n |-> (y_obs[i] - y_pred[i]) * (y_obs[i] - y_pred[i])])
        \* n * SS_tot
        n_ss_tot == n * Sum([i \in 1..n |-> y_obs[i] * y_obs[i]]) - Sum(y_obs) * Sum(y_obs)
    IN  IF n < 2 THEN NaN
        ELSE IF n_ss_tot = 0 THEN (IF ss_res = 0 THEN Rat(1, 1) ELSE Zero)
        ELSE Rat(n_ss_tot - n * ss_res, n_ss_tot)

r2_score_error(y_obs, y_pred) == IF Len(y_obs) = 0 THEN "ValueError" ELSE "ok"

\* YYMixin._set_yy: the MetricsData of one split
_set_yy(y_obs, y_pred) ==
    [y_obs |-> y_obs, y_pred |-> y_pred, r2 |-> r2_score(y_obs, y_pred)]

group == <<"group">>

split == <<"split">>

pred_ == <<"pred", "_">>

\* YYMixin.cal_label_metrics, the body of its loop for one split
yy_split(label_name, df_label, _split) ==
    LET df_split == query(df_label, split, _split)
        y_obs == Column(df_split, label_name)
        y_pred == Column(df_split, pred_ \o label_name)
    IN  [err |-> r2_score_error(y_obs, y_pred), value |-> _set_yy(y_obs, y_pred)]

\* YYMixin.cal_label_metrics: the LabelMetrics of a label, or the exception
\* of the first split that raises
cal_label_metrics_yy(label_name, df_group) ==
    LET required_columns ==
            SelectSeq(df_group.columns, LAMBDA column_name : contains(column_name, label_name))
                \o <<split>>
        df_label == Project(df_group, required_columns)
        val == yy_split(label_name, df_label, "val")
        test == yy_split(label_name, df_label, "test")
    IN  IF val.err # "ok" THEN [err |-> val.err, value |-> <<>>]
        ELSE IF test.err # "ok" THEN [err |-> test.err, value |-> <<>>]
        ELSE [err |-> "ok", value |-> [val |-> val.value, test |-> test.value]]

\* The for loop of _cal_group_metrics over the labels still to visit;
\* group_metrics is the dict so far, as its items in insertion order
RECURSIVE group_metrics_loop(_, _, _)
group_metrics_loop(label_list, df_group, group_metrics) ==
    IF label_list = <<>> THEN [err |-> "ok", value |-> group_metrics]
    ELSE LET label_name == Head(label_list)
             label_metrics == cal_label_metrics_yy(label_name, df_group)
         IN  IF label_metrics.err # "ok" THEN [err |-> label_metrics.err, value |-> <<>>]
             ELSE group_metrics_loop(Tail(label_list), df_group,
                      Append(group_metrics,
                             [label |-> label_name, metrics |-> label_metrics.value]))

\* MetricsMixin._cal_group_metrics
_cal_group_metrics(df_group) ==
    LET label_list ==
            SelectSeq(df_group.columns, LAMBDA c : startswith(c, <<"label">>))
    IN  group_metrics_loop(label_list, df_group, <<>>)

\* The for loop of cal_whole_metrics over the groups still to visit
RECURSIVE whole_metrics_loop(_, _, _)
whole_metrics_loop(groups, df_likelihood, whole_metrics) ==
    IF groups = <<>> THEN [err |-> "ok", value |-> whole_metrics]
    ELSE LET df_group == query(df_likelihood, group, Head(groups))
             group_metrics == _cal_group_metrics(df_group)
         IN  IF group_metrics.err # "ok" THEN [err |-> group_metrics.err, value |-> <<>>]
             ELSE whole_metrics_loop(Tail(groups), df_likelihood,
                      Append(whole_metrics,
                             [group |-> Head(groups), metrics |-> group_metrics.value]))

\* every group is given the whole table
cal_whole_metrics_unfiltered(df_likelihood) ==
    LET groups == unique(Column(df_likelihood, group))
        group_metrics == _cal_group_metrics(df_likelihood)
    IN  IF group_metrics.err # "ok" THEN [err |-> group_metrics.err, value |-> <<>>]
        ELSE [err |-> "ok",
              value |-> [i \in 1..Len(groups) |->
                            [group |-> groups[i], metrics |-> group_metrics.value]]]

\* MetricsMixin.cal_whole_metrics: the dict of the groups as its items in
\* insertion order, or the exception that ended the call
cal_whole_metrics(df_likelihood) ==
    whole_metrics_loop(unique(Column(df_likelihood, group)), df_likelihood, <<>>)

label_x == <<"label", "_", "x">>

label_y == <<"label", "_", "y">>

RegColumns == <<group, split, label_y, pred_ \o label_y, label_x, pred_ \o label_x>>

\* observed and predicted value of label_x in a row; label_y holds both plus 10
ObsPred == {<<5, 6>>, <<6, 6>>}

RegRow(g, s, op) ==
    [c \in {RegColumns[k] : k \in 1..Len(RegColumns)} |->
        IF c = group THEN g
        ELSE IF c = split THEN s
        ELSE IF c = label_x THEN op[1]
        ELSE IF c = pred_ \o label_x THEN op[2]
        ELSE IF c = label_y THEN op[1] + 10
        ELSE op[2] + 10]

RegRows == {RegRow(g, s, op) : g \in Groups, s \in {"val", "test"}, op \in ObsPred}

RegTables ==
    {[columns |-> RegColumns, rows |-> rows] :
        rows \in UNION {[1..n -> RegRows] : n \in 1..MaxRows}}

CalWholeMetrics ==
    /\ lastOp' = "cal_whole_metrics"
    /\ lastArgs' = NoArgs
    /\ result' = cal_whole_metrics(table)
    /\ err' = cal_whole_metrics(table).err
    /\ UNCHANGED <<accVars, regVars, summary_exists, summary_file, passed, evalVars, table,
                   twin>>

-----------------------------------------------------------------------------
(* ROCMixin.  A ROC curve is [fpr, tpr], two sequences of rationals of one *)
(* length; the curves metrics.roc_curve returns for the prediction columns  *)
(* of a split are part of the input, table.roc[split][pred_name].           *)

\* np.unique of the concatenated fpr arrays: the distinct values, ascending
RECURSIVE np_unique(_)
np_unique(S) ==
    IF S = {} THEN <<>>
    ELSE LET m == CHOOSE x \in S : \A y \in S : ~RatLess(y, x)
         IN  <<m>> \o np_unique(S \ {m})

\* np.interp(x, xp, fp) for one x: fp left of xp[0], else at the last index j
\* with xp[j] <= x it returns fp[j] when j is the last index or xp[j] = x
\* (so of several points at one xp the last one), else the value on the
\* segment from j to j + 1
interp(x, xp, fp) ==
    IF RatLess(x, xp[1]) THEN fp[1]
    ELSE LET j == CHOOSE k \in 1..Len(xp) :
                      /\ ~RatLess(x, xp[k])
                      /\ k = Len(xp) \/ RatLess(x, xp[k + 1])
         IN  IF j = Len(xp) \/ xp[j] = x THEN fp[j]
             ELSE RatAdd(fp[j],
                         RatDiv(RatMul(RatSub(fp[j + 1], fp[j]), RatSub(x, xp[j])),
                                RatSub(xp[j + 1], xp[j])))

\* sklearn.metrics.auc: the trapezoidal rule
RECURSIVE auc(_, _)
auc(fpr, tpr) ==
    IF Len(fpr) < 2 THEN Zero
    ELSE RatAdd(RatDivInt(RatMul(RatSub(fpr[2], fpr[1]), RatAdd(tpr[1], tpr[2])), 2),
                auc(Tail(fpr), Tail(tpr)))

\* ROCMixin._set_roc: the MetricsData of one split
_set_roc(fpr, tpr) == [fpr |-> fpr, tpr |-> tpr, auc |-> auc(fpr, tpr)]

RECURSIVE SumRat(_)
SumRat(xs) == IF xs = <<>> THEN Zero ELSE RatAdd(Head(xs), SumRat(Tail(xs)))

\* _cal_label_roc_multi, from "First aggregate all false positive rates" on:
\* the macro curve of the per-class curves _roc (a sequence, one per class)
macro(_roc) ==
    LET num_classes == Len(_roc)
        all_fpr == np_unique(UNION {Range(_roc[c].fpr) : c \in 1..num_classes})
        mean_tpr == [i \in 1..Len(all_fpr) |->
                        RatDivInt(SumRat([c \in 1..num_classes |->
                                      interp(all_fpr[i], _roc[c].fpr, _roc[c].tpr)]),
                                  num_classes)]
    IN  _set_roc(all_fpr, mean_tpr)

\* the columns of df_group whose name contains label_name
required_columns(label_name, df_group) ==
    SelectSeq(df_group.columns, LAMBDA column_name : contains(column_name, label_name))

\* ROCMixin._cal_label_roc_binary
_cal_label_roc_binary(label_name, df_group) ==
    LET POSITIVE == "1"
        positive_pred_name == pred_ \o label_name \o <<"_", POSITIVE>>
        found == positive_pred_name \in Range(required_columns(label_name, df_group))
    IN  [err |-> IF found THEN "ok" ELSE "KeyError",
         path |-> "binary",
         class_list |-> <<>>,
         metrics |-> IF found
                     THEN [s \in {"val", "test"} |->
                              _set_roc(df_group.roc[s][positive_pred_name].fpr,
                                       df_group.roc[s][positive_pred_name].tpr)]
                     ELSE <<>>]

\* ROCMixin._cal_label_roc_multi
_cal_label_roc_multi(label_name, df_group) ==
    LET columns == required_columns(label_name, df_group)
        pred_name_list == SelectSeq(columns, LAMBDA c : startswith(c, <<"pred">>))
        \* pred_name.rsplit('_', 1)[-1]
        class_list == [i \in 1..Len(pred_name_list) |->
                          pred_name_list[i][Len(pred_name_list[i])]]
        pred_name(class_name) == pred_ \o label_name \o <<"_", class_name>>
        found == \A i \in 1..Len(class_list) : pred_name(class_list[i]) \in Range(columns)
    IN  [err |-> IF found THEN "ok" ELSE "KeyError",
         path |-> "multi",
         class_list |-> class_list,
         metrics |-> IF found
                     THEN [s \in {"val", "test"} |->
                              macro([i \in 1..Len(class_list) |->
                                        df_group.roc[s][pred_name(class_list[i])]])]
                     ELSE <<>>]

\* ROCMixin.cal_label_metrics
cal_label_metrics_roc(label_name, df_group) ==
    LET pred_name_list ==
            SelectSeq(df_group.columns, LAMBDA c : startswith(c, pred_ \o label_name))
        isMultiClass == Len(pred_name_list) > 2
    IN  IF isMultiClass THEN _cal_label_roc_multi(label_name, df_group)
        ELSE _cal_label_roc_binary(label_name, df_group)

\* Classification tables: label_1 with two or three classes, alone or next to
\* label_10 or label_2 with two or three classes
label_1 == <<"label", "_", "1">>

label_10 == <<"label", "_", "1", "0">>

label_2 == <<"label", "_", "2">>

Classes(n) == IF n = 2 THEN <<"0", "1">> ELSE <<"0", "1", "2">>

LabelBlock(label_name, n) ==
    <<label_name>> \o [i \in 1..n |-> pred_ \o label_name \o <<"_", Classes(n)[i]>>]

ClsColumns ==
    {<<group, split>> \o LabelBlock(label_1, n) : n \in {2, 3}}
    \cup {<<group, split>> \o LabelBlock(label_1, n) \o LabelBlock(other, m) :
              n \in {2, 3}, m \in {2, 3}, other \in {label_10, label_2}}

Rates == {Rat(0, 1), Rat(1, 2), Rat(1, 1)}

Points == Rates \X Rates

\* the points a ROC curve can go to from point pt: up, right, or both
Succ(pt) ==
    {q \in Points : q # pt /\ ~RatLess(q[1], pt[1]) /\ ~RatLess(q[2], pt[2])}

\* the point sequences from pt to (1, 1) of at most n points
RECURSIVE PathsFrom(_, _)
PathsFrom(pt, n) ==
    IF pt = <<Rat(1, 1), Rat(1, 1)>> THEN {<<pt>>}
    ELSE IF n <= 1 THEN {}
    ELSE UNION {{<<pt>> \o path : path \in PathsFrom(q, n - 1)} : q \in Succ(pt)}

Curve(path) ==
    [fpr |-> [i \in 1..Len(path) |-> path[i][1]], tpr |-> [i \in 1..Len(path) |-> path[i][2]]]

\* what roc_curve can return on the grid: from (0, 0) to (1, 1), never down
\* or left
Curves == {Curve(path) : path \in PathsFrom(<<Rat(0, 1), Rat(0, 1)>>, MaxPoints)}

Diagonal == Curve(<<<<Rat(0, 1), Rat(0, 1)>>, <<Rat(1, 1), Rat(1, 1)>>>>)

PredColumns(columns) == {c \in Range(columns) : startswith(c, <<"pred">>)}

\* In split val every class has curve, except class 0 that has curve0; in
\* split test every class has the diagonal.
ClsTables ==
    {[columns |-> columns, rows |-> <<>>,
      roc |-> [s \in {"val", "test"} |->
                  [c \in PredColumns(columns) |->
                      IF s = "test" THEN Diagonal
                      ELSE IF c[Len(c)] = "0" THEN curve0 ELSE curve]]] :
        columns \in ClsColumns, curve \in Curves, curve0 \in Curves}

CalLabelMetrics(label_name) ==
    /\ label_name \in Range(table.columns)
    /\ lastOp' = "cal_label_metrics"
    /\ lastArgs' = [label_name |-> label_name]
    /\ result' = cal_label_metrics_roc(label_name, table)
    /\ err' = cal_label_metrics_roc(label_name, table).err
    /\ UNCHANGED <<accVars, regVars, summary_exists, summary_file, passed, evalVars, table,
                   twin>>

-----------------------------------------------------------------------------
(* A stand-alone EpochLoss object driven through its public methods *)

LossValues == {Rat(3, 10), Rat(4, 10), Rat(5, 10)}

PhaseBound(phase) == IF phase = "val" THEN MaxVal ELSE MaxTrain

AppendEpochLoss(phase, value) ==
    /\ Len(acc[phase]) < PhaseBound(phase)
    /\ acc' = append_epoch_loss(acc, phase, value)
    /\ appended' = [appended EXCEPT ![phase] = value]
    /\ pending' = IF phase = "val" THEN TRUE ELSE pending
    /\ ordered' = (ordered /\ (phase = "val" => ~pending))
    /\ lastOp' = "append_epoch_loss"
    /\ lastArgs' = Args(phase, -1, -1)
    /\ err' = "ok"
    /\ UNCHANGED <<ret, regVars, sumVars>>

GetLatestLoss(phase) ==
    /\ IF can_get_latest_loss(acc, phase)
       THEN ret' = get_latest_loss(acc, phase) /\ err' = "ok"
       ELSE ret' = ret /\ err' = "IndexError"
    /\ lastOp' = "get_latest_loss"
    /\ lastArgs' = Args(phase, -1, -1)
    /\ UNCHANGED <<acc, appended, pending, ordered, regVars, sumVars>>

UpdateBestValLossEpoch(epoch) ==
    LET e == update_best_error(acc, epoch) IN
    /\ err' = e
    /\ IF e = "ok"
       THEN /\ acc' = update_best_val_loss_epoch(acc, epoch)
            /\ ordered' = (ordered /\ pending /\ epoch = Len(acc.val) - 1)
            /\ pending' = FALSE
       ELSE /\ acc' = acc
            /\ ordered' = (ordered /\ e = "IndexError")
            /\ pending' = pending
    /\ lastOp' = "update_best_val_loss_epoch"
    /\ lastArgs' = Args("val", epoch, -1)
    /\ UNCHANGED <<ret, appended, regVars, sumVars>>

InitAcc ==
    /\ acc = EpochLoss
    /\ ret = None
    /\ appended = [train |-> None, val |-> None]
    /\ pending = FALSE
    /\ ordered = TRUE

InitReg0 ==
    /\ internal_label_list = <<>>
    /\ batch_loss = <<>>
    /\ running_loss = <<>>
    /\ epoch_loss = <<>>
    /\ batches = <<>>
    /\ closed = <<>>

InitSum0 ==
    /\ summary_exists = FALSE
    /\ summary_file = <<>>
    /\ passed = <<>>
    /\ runs = [p \in Procs |-> NoRun]
    /\ started = 0
    /\ twin = NoTwin

InitCalc0 ==
    /\ table = NoTable
    /\ result = NotComputed

InitLast ==
    /\ lastOp = "init"
    /\ lastArgs = NoArgs
    /\ err = "ok"

Init == InitAcc /\ InitReg /\ InitSum0 /\ InitCalc0 /\ InitLast

Next ==
    \/ \E criterion \in Criteria(internal_label_list) : CalBatchLoss(criterion)
    \/ \E batch_size \in BatchSizes : CalRunningLoss(batch_size)
    \/ \E epoch \in Epochs, dataset_size \in DatasetSizes :
           CalEpochLoss(epoch, "val", dataset_size)
    \/ \E dataset_size \in DatasetSizes : CalEpochLoss(0, "train", dataset_size)
    \/ \E task \in TaskValues, labels \in LabelLists : CreateLossReg(task, labels)

Spec == Init /\ [][Next]_vars

-----------------------------------------------------------------------------
(* Properties of the ledger *)

Labels == {internal_label_list[i] : i \in 1..Len(internal_label_list)}

AllKeys == Labels \cup {"total"}

Latest(k, phase) == epoch_loss[k][phase][Len(epoch_loss[k][phase])]

RECURSIVE SumOver(_, _)
SumOver(f, S) ==
    IF S = {} THEN Zero
    ELSE LET x == CHOOSE y \in S : TRUE IN RatAdd(f[x], SumOver(f, S \ {x}))

\* sum of batch loss * batch size of label l over the batches bs
RECURSIVE WeightedSum(_, _)
WeightedSum(bs, l) ==
    IF bs = <<>> THEN Zero
    ELSE RatAdd(WeightedSum(Tail(bs), l), RatMulInt(Head(bs).loss[l], Head(bs).size))

\* the last cal_epoch_loss call appended its epoch losses
EpochLossAppended == lastOp = "cal_epoch_loss" /\ err \in {"ok", "TypeError"}

EpochLossReturned == lastOp = "cal_epoch_loss" /\ err = "ok"

\* C4: the epoch loss cal_epoch_loss appends to 'total' under a phase is the
\* arithmetic mean over the internal labels of the per-label epoch losses
\* appended by the same call, at every position of every phase.
C4_TotalIsMeanOfLabels ==
    \A phase \in Phases :
        /\ \A l \in Labels : Len(epoch_loss[l][phase]) = Len(epoch_loss["total"][phase])
        /\ \A i \in 1..Len(epoch_loss["total"][phase]) :
               RatMulInt(epoch_loss["total"][phase][i], Len(internal_label_list))
                   = SumOver([l \in Labels |-> epoch_loss[l][phase][i]], Labels)

\* per-label epoch losses 2.0 and 4.0 were appended with total 3.0
C4_Witness ==
    /\ EpochLossReturned
    /\ internal_label_list = <<"label_A", "label_B">>
    /\ Latest("label_A", lastArgs.phase) = Rat(2, 1)
    /\ Latest("label_B", lastArgs.phase) = Rat(4, 1)
    /\ Latest("total", lastArgs.phase) = Rat(3, 1)

\* C5: for every internal label, the epoch loss cal_epoch_loss(epoch, phase,
\* dataset_size) appends under phase is the sum of batch_loss[label] *
\* batch_size over the batches accumulated since the running sums were last
\* reset, divided by dataset_size.
C5_EpochLossIsWeightedMean ==
    EpochLossAppended =>
        \A l \in Labels :
            Latest(l, lastArgs.phase) = RatDivInt(WeightedSum(closed, l), lastArgs.size)

\* a batch of 2 and a final batch of 1 reduced over a dataset of 3
C5_Witness ==
    /\ EpochLossReturned
    /\ Len(closed) = 2
    /\ closed[1].size = 2
    /\ closed[2].size = 1
    /\ lastArgs.size = 3
    /\ \A l \in Labels : Latest(l, lastArgs.phase) = closed[1].loss[l]

\* C6: after any number of cal_running_loss calls, running_loss['total'] is
\* the sum over the internal labels of running_loss[label].
C6_RunningTotalIsSumOfLabels ==
    running_loss["total"] = SumOver(running_loss, Labels)

\* C7: a cal_epoch_loss call that returns, for either phase, leaves
\* running_loss at 0.0 and batch_loss cleared for every key; at any time the
\* running sum of a label holds exactly the batches accumulated since that
\* reset, those of a phase whose cal_epoch_loss call was skipped included.
C7_ResetAfterEpoch ==
    /\ EpochLossReturned =>
           \A k \in AllKeys : running_loss[k] = Zero /\ batch_loss[k] = None
    /\ \A l \in Labels : running_loss[l] = WeightedSum(batches, l)

\* a second epoch loss was appended, after a reset, from the batches of its
\* own epoch only
C7_Witness ==
    /\ EpochLossReturned
    /\ Recorded(epoch_loss) = 2
    /\ Len(closed) = 1
    /\ \A k \in AllKeys : running_loss[k] = Zero /\ batch_loss[k] = None

Best(a) == <<a.best_val_loss, a.best_epoch, a.update_flag>>

\* C8: cal_epoch_loss with phase 'val' runs update_best(epoch) on the
\* accumulator of every internal label and of 'total', on the val loss it has
\* just appended; with phase 'train' it leaves best_val_loss, best_epoch and
\* the flag of every accumulator as they were.
C8_UpdateBestOnValOnly ==
    [][EpochLossReturned' =>
         \A k \in AllKeys :
            IF lastArgs'.phase = "train"
            THEN Best(epoch_loss'[k]) = Best(epoch_loss[k])
            ELSE LET new == epoch_loss'[k].val[Len(epoch_loss[k].val) + 1]
                     old == epoch_loss[k]
                 IN  IF lastArgs'.epoch = 0
                     THEN Best(epoch_loss'[k]) = <<new, 1, old.update_flag>>
                     ELSE IF RatLess(new, old.best_val_loss)
                          THEN Best(epoch_loss'[k]) = <<new, lastArgs'.epoch + 1, TRUE>>
                          ELSE Best(epoch_loss'[k]) = <<old.best_val_loss, old.best_epoch, FALSE>>]_vars

\* the val call of epoch 1 improved the best of every accumulator
C8_Witness ==
    /\ EpochLossReturned
    /\ lastArgs.phase = "val"
    /\ lastArgs.epoch = 1
    /\ internal_label_list = <<"label_A", "label_B">>
    /\ \A k \in AllKeys : Best(epoch_loss[k]) = <<Latest(k, "val"), 2, TRUE>>

OtherPhase(phase) == IF phase = "train" THEN "val" ELSE "train"

IsPrefix(s, t) == Len(s) <= Len(t) /\ SubSeq(t, 1, Len(s)) = s

\* C20: in every state of the ledger all accumulators (every internal label
\* and 'total') have train sequences of one length and val sequences of one
\* length.  On the ledger a construction returned, until the next construction:
\* every cal_epoch_loss(phase) call that gets past its division
\* lengthens the phase sequence of every accumulator by exactly one and leaves
\* the other phase as it was; no step changes or removes an entry recorded
\* earlier; cal_running_loss changes no accumulator.
C20_SequencesGrowInStep ==
    /\ [](\A k \in AllKeys, phase \in Phases :
             Len(epoch_loss[k][phase]) = Len(epoch_loss["total"][phase]))
    /\ [][lastOp' # "create_loss_reg" =>
            /\ DOMAIN epoch_loss' = DOMAIN epoch_loss
            /\ \A k \in AllKeys, phase \in Phases :
                   IsPrefix(epoch_loss[k][phase], epoch_loss'[k][phase])
            /\ EpochLossAppended' =>
                   \A k \in AllKeys :
                       /\ Len(epoch_loss'[k][lastArgs'.phase])
                              = Len(epoch_loss[k][lastArgs'.phase]) + 1
                       /\ epoch_loss'[k][OtherPhase(lastArgs'.phase)]
                              = epoch_loss[k][OtherPhase(lastArgs'.phase)]
            /\ lastOp' = "cal_running_loss" => epoch_loss' = epoch_loss]_vars

\* a ledger of two labels after a train and a val epoch, with a running sum
\* added since
C20_Witness ==
    /\ internal_label_list = <<"label_A", "label_B">>
    /\ lastOp = "cal_running_loss"
    /\ err = "ok"
    /\ \A k \in AllKeys : Len(epoch_loss[k].train) = 1 /\ Len(epoch_loss[k].val) = 1

\* the exception that reports an invalid task
InvalidTask == "ValueError"

FactoryCalled == lastOp \in {"set_eval", "create_loss_reg"}

\* C14: for every task value other than 'classification', 'regression' and
\* 'deepsurv', set_eval and create_loss_reg raise the invalid-task error and
\* return no object.
C14_UnknownTaskRaisesInvalidTask ==
    (FactoryCalled /\ lastArgs.task \notin Tasks) => err = InvalidTask

\* C15: for each of 'classification', 'regression' and 'deepsurv', set_eval
\* and create_loss_reg return the object of that task; none raises.
C15_KnownTaskReturnsObject ==
    (FactoryCalled /\ lastArgs.task \in Tasks) => err = "ok"

SumInit == InitAcc /\ InitReg0 /\ InitSum0 /\ InitCalc0 /\ InitLast

SpecSummary == SumInit /\ [][SumNext]_vars

RECURSIVE Flatten(_)
Flatten(ss) == IF ss = <<>> THEN <<>> ELSE Head(ss) \o Flatten(Tail(ss))

\* C10: update_summary never drops or alters rows already in the file: the
\* file holds the rows of all calls so far, as they were first written, in
\* the order they were passed.
C10_RowsKeptUnchanged ==
    summary_exists => summary_file = Flatten(passed)

\* C11 as stated: after any sequence of runs the rows of the summary file are
\* in ascending group order over the whole file, across the runs.
C11_FileSortedByGroup ==
    \A i, j \in 1..Len(summary_file) :
        i < j => GroupRank(summary_file[i].group) <= GroupRank(summary_file[j].group)

\* C11: the rows of the summary file are in the order of the runs that wrote
\* them, and the rows of one run are in ascending group order; the rows of
\* different runs are not sorted against each other.
C11_SortedWithinEachRun ==
    \A i, j \in 1..Len(summary_file) :
        i < j =>
            /\ summary_file[i].datetime <= summary_file[j].datetime
            /\ summary_file[i].datetime = summary_file[j].datetime
                   => GroupRank(summary_file[i].group) <= GroupRank(summary_file[j].group)

\* two runs wrote: the first both groups, the second groupA, which follows
\* the groupB row of the first
C11_Witness ==
    /\ Len(summary_file) = 3
    /\ summary_file[1].group = "groupA" /\ summary_file[1].datetime = 1
    /\ summary_file[2].group = "groupB" /\ summary_file[2].datetime = 1
    /\ summary_file[3].group = "groupA" /\ summary_file[3].datetime = 2

SpecEval == SumInit /\ [][EvalNext]_vars

SpecTwin == SumInit /\ [][TwinNext]_vars

\* C21: when two ledgers are given the same operations and their batch
\* losses differ only for one internal label L, then after every step the
\* accumulator of every other internal label (its train and val sequences,
\* best_val_loss, best_epoch and flag) is the same on both ledgers; only the
\* accumulators of L and of 'total' may differ.  What is appended for L
\* never shows up in the sequence of another label: no sequence is shared.
C21_OtherLabelsAgree ==
    \A k \in Range(TwinLabels) :
        k # twin.L => twin.a.epoch_loss[k] = twin.b.epoch_loss[k]

\* after a train and a val epoch whose batches differed in label_A, the
\* accumulators of label_A and of 'total' differ between the two ledgers
C21_Witness ==
    /\ twin.L = "label_A"
    /\ lastOp = "cal_epoch_loss"
    /\ err = "ok"
    /\ Len(twin.a.epoch_loss["label_B"].train) = 1
    /\ Len(twin.a.epoch_loss["label_B"].val) = 1
    /\ twin.a.epoch_loss["label_A"].train # twin.b.epoch_loss["label_A"].train
    /\ twin.a.epoch_loss["label_A"].best_val_loss # twin.b.epoch_loss["label_A"].best_val_loss
    /\ twin.a.epoch_loss["total"] # twin.b.epoch_loss["total"]

\* the runs (by their datetime) that have rows in a table
RunIds(rows) == {rows[i].datetime : i \in 1..Len(rows)}

\* what a run has to complete before its summary may be written: the metric
\* computation, the summary rows, and the figures where its make_metrics
\* saves figures
Required(r) ==
    {"cal_whole_metrics", "make_summary"}
        \cup ({"make_save_fig"} \cap (Range(r.completed) \cup Range(r.todo)))

\* process p leaves update_summary in this step: it writes the file
Writes(p) == runs[p].inside /\ ~runs'[p].inside

\* C12: in both make_metrics variants the summary file is written only by a
\* run whose metric computation, figure saving (where present) and summary
\* construction have all returned; a statement that raises leaves the file as
\* it was, and the run it ends has no row in the file.
C12_SummaryWrittenLast ==
    [][/\ (summary_file' # summary_file \/ summary_exists' # summary_exists) =>
              \E p \in Procs : Writes(p) /\ Required(runs[p]) \subseteq Range(runs[p].completed)
       /\ err' = "Exception" =>
              /\ summary_file' = summary_file
              /\ summary_exists' = summary_exists
              /\ \A p \in Procs :
                     (runs[p].todo # <<>> /\ runs'[p] = NoRun)
                         => runs[p].run \notin RunIds(summary_file')]_vars

\* the second run failed to save its figures; the file holds the rows of the
\* first run only
C12_Witness ==
    /\ lastOp = "make_save_fig"
    /\ err = "Exception"
    /\ started = 2
    /\ summary_exists
    /\ RunIds(summary_file) = {1}
    /\ \A p \in Procs : runs[p] = NoRun

\* C13: update_summary reads the file and later overwrites it, with no lock.
\* When a run writes, its own rows are in the file and the rows of every run
\* that wrote since it read are not (lost update, last writer wins); when no
\* run wrote in between (the calls were serialised) the file keeps all rows it
\* had and gains the rows of the writer.
C13_LostUpdateUnlessSerialised ==
    [][\A p \in Procs : Writes(p) =>
          /\ runs[p].run \in RunIds(summary_file')
          /\ RunIds(summary_file') \cap runs[p].missed = {}
          /\ runs[p].missed = {} =>
                 /\ RunIds(summary_file) \subseteq RunIds(summary_file')
                 /\ Len(summary_file') = Len(summary_file) + Len(runs[p].df_summary)]_vars

\* two runs have written, and the file holds the rows of one of them
C13_Witness ==
    /\ \A p \in Procs : runs[p] = NoRun
    /\ started = 2
    /\ Len(passed) = 2
    /\ Cardinality(RunIds(summary_file)) = 1

RegInit ==
    /\ InitAcc /\ InitReg0 /\ InitSum0 /\ InitLast
    /\ table \in RegTables
    /\ result = NotComputed

RegNext == CalWholeMetrics

SpecRegEval == RegInit /\ [][RegNext]_vars

-----------------------------------------------------------------------------
(* Properties of the calculators *)

WholeMetricsReturned == lastOp = "cal_whole_metrics" /\ err = "ok"

\* at least two samples, all of one value
Constant(y) == Len(y) >= 2 /\ \A a, b \in 1..Len(y) : y[a] = y[b]

\* C16: on a split whose observed values are all equal (SS_tot = 0) the
\* regression calculator raises UndefinedMetric whatever the predictions, so
\* no call returns metrics that hold an r2 for such a split.
C16_NoR2ForConstantObserved ==
    WholeMetricsReturned =>
        \A i \in 1..Len(result.value) :
            \A k \in 1..Len(result.value[i].metrics) :
                \A s \in {"val", "test"} :
                    ~Constant(result.value[i].metrics[k].metrics[s].y_obs)

LabelMetricsReturned == lastOp = "cal_label_metrics" /\ err = "ok"

\* the val curve of every class the multi-class path averaged is curve
AllClassCurvesAre(curve) ==
    \A i \in 1..Len(result.class_list) :
        table.roc["val"][pred_ \o lastArgs.label_name \o <<"_", result.class_list[i]>>] = curve

\* C17: on the multi-class path, when the ROC curves of all classes are one
\* and the same sequence of (fpr, tpr) points, vertical steps included, the
\* macro curve is that sequence and its AUC is the AUC of that curve.
C17_MacroOfIdenticalCurves ==
    (LabelMetricsReturned /\ result.path = "multi") =>
        \A curve \in Curves :
            AllClassCurvesAre(curve) =>
                /\ result.metrics["val"].fpr = curve.fpr
                /\ result.metrics["val"].tpr = curve.tpr
                /\ result.metrics["val"].auc = auc(curve.fpr, curve.tpr)

\* the columns pred_<label_name>_<class> of the table, in column order
OwnPredColumns(label_name) ==
    SelectSeq(table.columns,
              LAMBDA c : \E k \in {"0", "1", "2"} : c = pred_ \o label_name \o <<"_", k>>)

\* C18: cal_label_metrics takes the multi-class path exactly when more than
\* two pred_<label>_<class> columns belong to the label, whatever other
\* columns the table has, and the class list of the multi-class path is the
\* classes of that label's columns.
C18_PathByOwnPredColumns ==
    lastOp = "cal_label_metrics" =>
        LET own == OwnPredColumns(lastArgs.label_name) IN
        /\ result.path = "multi" <=> Len(own) > 2
        /\ result.path = "multi" =>
               result.class_list = [i \in 1..Len(own) |-> own[i][Len(own[i])]]

FirstRow(g) ==
    CHOOSE i \in 1..Len(table.rows) :
        table.rows[i][group] = g /\ \A j \in 1..(i - 1) : table.rows[j][group] # g

\* the cells of column c in the rows of group g and split s, in row order
ValuesOf(g, s, c) ==
    LET rows == SelectSeq(table.rows, LAMBDA r : r[group] = g /\ r[split] = s)
    IN  [i \in 1..Len(rows) |-> rows[i][c]]

\* the label_* columns of the table in column order
LabelColumns == SelectSeq(table.columns, LAMBDA c : startswith(c, <<"label", "_">>))

\* C19: cal_whole_metrics returns one entry per distinct group value, in
\* order of first appearance in the table; every entry holds one LabelMetrics
\* per label_* column, in column order, whose val and test payloads are both
\* set and are computed from the rows of that group and split only.  This
\* fixes the whole result from the table, so two calls on one table agree.
C19_OneEntryPerGroupAndLabel ==
    WholeMetricsReturned =>
        LET whole_metrics == result.value IN
        /\ {whole_metrics[i].group : i \in 1..Len(whole_metrics)} = Range(Column(table, group))
        /\ Len(whole_metrics) = Cardinality(Range(Column(table, group)))
        /\ \A i, j \in 1..Len(whole_metrics) :
               i < j => FirstRow(whole_metrics[i].group) < FirstRow(whole_metrics[j].group)
        /\ \A i \in 1..Len(whole_metrics) :
               LET g == whole_metrics[i].group
                   group_metrics == whole_metrics[i].metrics
               IN  /\ [k \in 1..Len(group_metrics) |-> group_metrics[k].label] = LabelColumns
                   /\ \A k \in 1..Len(group_metrics) :
                          /\ DOMAIN group_metrics[k].metrics = {"val", "test"}
                          /\ \A s \in {"val", "test"} :
                                 LET m == group_metrics[k].metrics[s]
                                     l == group_metrics[k].label
                                 IN  /\ m.y_obs = ValuesOf(g, s, l)
                                     /\ m.y_pred = ValuesOf(g, s, pred_ \o l)
                                     /\ m.r2 = r2_score(m.y_obs, m.y_pred)

\* groupB appears first in the table and groupA second; both have val and
\* test rows
C19_Witness ==
    /\ WholeMetricsReturned
    /\ Len(result.value) = 2
    /\ result.value[1].group = "groupB"
    /\ result.value[2].group = "groupA"
    /\ Len(result.value[1].metrics) = 2

ClsInit ==
    /\ InitAcc /\ InitReg0 /\ InitSum0 /\ InitLast
    /\ table \in ClsTables
    /\ result = NotComputed

ClsNext == \E label_name \in {label_1, label_10, label_2} : CalLabelMetrics(label_name)

SpecClsEval == ClsInit /\ [][ClsNext]_vars

AccInit == InitAcc /\ InitReg0 /\ InitSum0 /\ InitCalc0 /\ InitLast

AccNext ==
    \/ \E phase \in Phases, value \in LossValues : AppendEpochLoss(phase, value)
    \/ \E phase \in Phases : GetLatestLoss(phase)
    \/ \E epoch \in 0..(MaxVal - 1) : UpdateBestValLossEpoch(epoch)

SpecAcc == AccInit /\ [][AccNext]_vars

-----------------------------------------------------------------------------
(* Properties of the stand-alone accumulator *)

RECURSIVE MinLoss(_)
MinLoss(s) ==
    IF Len(s) = 1 THEN s[1]
    ELSE LET m == MinLoss(SubSeq(s, 1, Len(s) - 1))
         IN  IF RatLess(s[Len(s)], m) THEN s[Len(s)] ELSE m

FirstIndex(s, v) == CHOOSE i \in 1..Len(s) : s[i] = v /\ \A j \in 1..(i - 1) : s[j] # v

\* every val loss recorded so far got its update_best call, epoch by epoch
EpochsRecorded == ordered /\ ~pending /\ Len(acc.val) > 0

ExampleLosses == <<Rat(5, 10), Rat(3, 10), Rat(4, 10), Rat(3, 10)>>

IsExamplePrefix(s) == Len(s) <= Len(ExampleLosses) /\ s = SubSeq(ExampleLosses, 1, Len(s))

\* C1: with val losses recorded at epochs 0, 1, ..., n in order, best_val_loss
\* is the minimum of the val losses so far and best_epoch is the 1-based
\* position of the first occurrence of that minimum.
C1_BestIsFirstMinimum ==
    EpochsRecorded =>
        /\ acc.best_val_loss = MinLoss(acc.val)
        /\ acc.best_epoch = FirstIndex(acc.val, MinLoss(acc.val))

\* [0.5, 0.3, 0.4, 0.3] recorded: the tie at epoch 3 left best_epoch at 2
C1_Witness ==
    /\ EpochsRecorded
    /\ acc.val = ExampleLosses
    /\ acc.best_val_loss = Rat(3, 10)
    /\ acc.best_epoch = 2

\* C2: with 0.5, 0.3, 0.4, 0.3 recorded on a fresh accumulator at epochs 0..3,
\* the improvement flag is true after epochs 0 and 1 and false after 2 and 3.
C2_FlagTrueAtEpochs0And1 ==
    (EpochsRecorded /\ IsExamplePrefix(acc.val)) =>
        is_updated(acc) = <<TRUE, TRUE, FALSE, FALSE>>[Len(acc.val)]

UpdateBestReturned == lastOp = "update_best_val_loss_epoch" /\ err = "ok"

C9_LatestOrError ==
    [][/\ lastOp' = "get_latest_loss" =>
            /\ acc' = acc
            /\ IF Len(acc[lastArgs'.phase]) > 0
               THEN err' = "ok" /\ ret' = appended[lastArgs'.phase]
               ELSE err' = "IndexError" /\ ret' = ret
       /\ (lastOp' = "update_best_val_loss_epoch" /\ Len(acc.val) = 0) =>
            err' = "IndexError" /\ acc' = acc
       /\ (lastOp' = "update_best_val_loss_epoch" /\ err' # "ok") => acc' = acc]_vars

\* latest('val') failed on an accumulator that holds train losses only
C9_Witness ==
    /\ lastOp = "get_latest_loss"
    /\ lastArgs.phase = "val"
    /\ err = "IndexError"
    /\ Len(acc.val) = 0
    /\ Len(acc.train) > 0

====
